---- MODULE Spec2Model ----
\* A model of the com-scrape-types runtime of vst3-rs: the class layout and
\* identity lookup generated by impl_class!, the ComWrapper allocation with
\* its shared (Arc) count, and the reference counting done through interface
\* pointers.
EXTENDS Integers, Sequences, FiniteSets, Bags, TLC

\* ---------------------------------------------------------------- bounds

\* Longest interface list of a class declaration.
MaxIfaces == 2
\* Most owning handles (wrapper values + ComPtr values + raw owning addresses).
MaxHandles == 3
\* Most borrowing handles (ComRef values) alive at once.
MaxRefs == 1
\* Number of foreign threads and most units a thread starts with.
NThreads == 2
MaxHeld == 2
\* Most cursors the parser is handed in one run.
MaxDecls == 4

\* ------------------------------------------------------ program constants

\* An interface type has the layout of one pointer (*const I::Vtbl).
PtrSize == 8
\* ComWrapperInner is #[repr(C)] { header, data }: the header comes first.
HeaderOffset == 0
NullPtr == 0

\* ------------------------------------------------- interfaces (generated)

\* The interface types of the bindings: Base is the root of A and A2
\* (A2 is-a A is-a Base); B derives from none of them.
Interfaces == {"Base", "A", "A2", "B"}
NoParent == "none"
Parent == [i \in Interfaces |->
             CASE i = "A" -> "Base"
               [] i = "A2" -> "A"
               [] OTHER -> NoParent]

\* Interface::IID: one identity per interface type.
IID == [i \in Interfaces |->
          CASE i = "Base" -> 11
            [] i = "A" -> 12
            [] i = "A2" -> 13
            [] OTHER -> 14]
Guids == {IID[i] : i \in Interfaces}

\* Interface::inherits(iid) as the bindings implement it for interface i:
\* the own identity, or the base interface's inherits.
RECURSIVE inherits(_, _)
inherits(i, iid) ==
    \/ iid = IID[i]
    \/ /\ Parent[i] # NoParent
       /\ inherits(Parent[i], iid)

\* The base interfaces of interface i, up to its root.
RECURSIVE Ancestors(_)
Ancestors(i) ==
    IF Parent[i] = NoParent THEN {} ELSE {Parent[i]} \cup Ancestors(Parent[i])

\* The `unsafe impl Inherits<J> for I` items the bindings declare: one for
\* each base interface J of I.
generated_inherits(i, j) == j \in Ancestors(i)

\* The Inherits relation without the blanket impl of lib.rs.
Inherits_generated_only(i, j) == generated_inherits(i, j)
\* I: Inherits<J> holds by the blanket `impl<I: Interface> Inherits<I> for I`
\* or by an impl of the bindings.
Inherits(i, j) == i = j \/ generated_inherits(i, j)

\* ------------------------------------------------------- class layout

\* All orders in which the compiler may lay out n fields of __Header (the
\* struct is not repr(C)): field k sits in slot lay[k].
Layouts(n) == {lay \in [1..n -> 1..n] : \A j, k \in 1..n : lay[j] = lay[k] => j = k}

\* The interface lists impl_class! accepts: one or more distinct field names.
ClassDecls ==
    {c \in UNION {[1..n -> Interfaces] : n \in 1..MaxIfaces} :
        \A j, k \in 1..Len(c) : c[j] = c[k] => j = k}

\* Address of field k of a __Header placed at address hdr.
field_addr(hdr, lay, k) == hdr + (lay[k] - 1) * PtrSize

\* offset_of!(__Header, field k): the field's address in a dummy header minus
\* the dummy's base address.
DummyBase == 512
\* The offset of field k taken to be its place in the declaration.
offset_of_declared(lay, k) == (k - 1) * PtrSize
offset_of(lay, k) ==
    LET base == DummyBase
        field == field_addr(base, lay, k)
    IN  field - base

\* size_of::<__Header>()
header_size(c) == Len(c) * PtrSize

\* offset_of!(ComWrapperInner<C>, header) and offset_of!(ComWrapperInner<C>, data)
inner_header_offset == HeaderOffset
inner_data_offset(c) == HeaderOffset + header_size(c)

\* Option<T>
None == [some |-> FALSE, val |-> 0]
Some(x) == [some |-> TRUE, val |-> x]

\* Class::query_interface as impl_class_inner! expands it: one `if` per listed
\* interface, in declaration order, the first that inherits iid returns.
RECURSIVE query_interface_from(_, _, _, _)
query_interface_from(c, lay, iid, k) ==
    IF k > Len(c) THEN None
    ELSE IF inherits(c[k], iid) THEN Some(offset_of(lay, k))
    ELSE query_interface_from(c, lay, iid, k + 1)

\* A lookup that prefers the field whose own identity is iid to an earlier
\* field that merely inherits it.
query_interface_exact_first(c, lay, iid) ==
    IF \E k \in 1..Len(c) : IID[c[k]] = iid
    THEN Some(offset_of(lay, CHOOSE k \in 1..Len(c) : IID[c[k]] = iid))
    ELSE query_interface_from(c, lay, iid, 1)

query_interface(c, lay, iid) == query_interface_from(c, lay, iid, 1)

\* Class::header::<W>(): field k holds the dispatch table Construct::OBJ of
\* interface k, built with OFFSET = offset_of!(__Header, field k).
header(c, lay) ==
    [k \in 1..Len(c) |-> [interface |-> c[k], OFFSET |-> offset_of(lay, k)]]

\* ---------------------------------------------------------------- state

VARIABLES
    cls,        \* the class declaration: its interface list, in order
    layout,     \* the slot the compiler gave each __Header field
    inner,      \* address of the ComWrapperInner the Arc points to (NullPtr: none yet)
    hdr,        \* the header stored in the allocation
    strong,     \* the Arc's strong count
    deallocs,   \* how many times the allocation has been dropped and freed
    wrappers,   \* the live ComWrapper values (ids)
    comptrs,    \* the live ComPtr values: a bag of interface addresses
    raws,       \* raw interface addresses that own one unit each: a bag
    refs,       \* the live ComRef values, a bag of [from |-> wrapper id, ptr |-> address]
    last,       \* the last call and what it returned
    pc,         \* per thread: where it is inside add_ref / release
    cur,        \* per thread: the interface address of the call it is in
    result,     \* per thread: `result` of the call it is in, or what its last call returned
    held,       \* per thread: the raw owning addresses it holds (a bag)
    freedBy,    \* the thread whose decrement freed the allocation (0: none)
    sub,        \* the interface types a subtyping question is about, and its answers
    tu,         \* the cursors of the translation unit handed to Namespace::parse
    skip_list,  \* the names handed to Namespace::parse as its skip list
    parsed      \* what Namespace::parse did with tu: nothing yet, Ok, Err or a panic

vars == <<cls, layout, inner, hdr, strong, deallocs, wrappers, comptrs, raws,
          refs, last, pc, cur, result, held, freedBy, sub, tu, skip_list, parsed>>

classVars == <<cls, layout>>
toolVars == <<sub, tu, skip_list, parsed>>
threadVars == <<pc, cur, result, held, freedBy>>

Threads == 1..NThreads
WrapperIds == 1..MaxHandles
\* Addresses the allocator may return for the Arc's contents.
Bases == {4096, 8192}

NoCall == [op |-> "none", iid |-> 0, some |-> FALSE, val |-> 0]
Call(op, iid, r) == [op |-> op, iid |-> iid, some |-> r.some, val |-> r.val]

\* Owning handles of the allocation: wrapper values, owning pointers (ComPtr
\* values and raw owning addresses, held anywhere), and the unit a thread is
\* in the middle of releasing.
RECURSIVE SumHeld(_)
SumHeld(T) ==
    IF T = {} THEN 0
    ELSE LET t == CHOOSE x \in T : TRUE
         IN  BagCardinality(held[t]) + SumHeld(T \ {t})

Releasing == {t \in Threads : pc[t] = "release_dec"}

OwningPointers == BagCardinality(comptrs) + BagCardinality(raws) + SumHeld(Threads)
                    + Cardinality(Releasing)
HandleCount == Cardinality(wrappers) + OwningPointers

\* ----------------------------------------------------- address arithmetic

\* data_from_header adding the size of a header of one interface.
data_from_header_one_field(ptr) == (ptr - inner_header_offset) + PtrSize
\* Wrapper::data_from_header / header_from_data for ComWrapper.
data_from_header(ptr) == (ptr - inner_header_offset) + inner_data_offset(cls)
header_from_data(ptr) == (ptr - inner_data_offset(cls)) + inner_header_offset

\* The address computed without the `.offset(offset)` step.
interface_ptr_no_offset(wrapper_ptr, offset) == wrapper_ptr + inner_header_offset
\* The interface address as_com_ref and to_com_ptr compute from the Arc's
\* pointer and the offset query_interface returned.
interface_ptr(wrapper_ptr, offset) == (wrapper_ptr + inner_header_offset) + offset

\* The header field stored at an interface address of the allocation.
FieldAt(ptr) ==
    CHOOSE k \in 1..Len(cls) : field_addr(inner + inner_header_offset, layout, k) = ptr
FieldAddrs == {field_addr(inner + inner_header_offset, layout, k) : k \in 1..Len(cls)}

\* What a dispatch-table entry does with its `this`: subtract the table's
\* OFFSET to reach the header, then data_from_header.
this_to_data(this) == data_from_header(this - hdr[FieldAt(this)].OFFSET)

\* wrapper_ptr in add_ref / release: the data address minus the data offset.
wrapper_ptr_of(data) == data - inner_data_offset(cls)

\* ------------------------------------------------------------ Arc

\* Arc::clone / Arc::increment_strong_count: the count after it.
increment_strong_count(n) == n + 1
\* Arc::drop / Arc::decrement_strong_count: the count after it, and whether
\* this decrement found the count at 1 and so dropped and freed the contents.
decrement_strong_count(n) == [count |-> n - 1, freed |-> n = 1]
\* The number of deallocations after decrement d.
Freed(d) == IF d.freed THEN deallocs + 1 ELSE deallocs

\* ------------------------------------------------------------ Init

\* The classes whose objects the lifetime specifications follow: the spec's
\* scenario class (A is-a Base, B unrelated), a class listing a derived
\* interface before its base, and a class with one interface.
ScenarioClasses == {<<"A", "B">>, <<"A2", "A">>, <<"B">>}

\* Nothing allocated yet, no thread inside a call.
NoObject ==
    /\ inner = NullPtr
    /\ hdr = << >>
    /\ strong = 0
    /\ deallocs = 0
    /\ wrappers = {}
    /\ comptrs = EmptyBag
    /\ raws = EmptyBag
    /\ refs = EmptyBag
    /\ last = NoCall
    /\ pc = [t \in Threads |-> "idle"]
    /\ cur = [t \in Threads |-> NullPtr]
    /\ result = [t \in Threads |-> None]
    /\ held = [t \in Threads |-> EmptyBag]
    /\ freedBy = 0

\* No subtyping question asked, and the generator not run.
NoSub == [a |-> NoParent, b |-> NoParent, c |-> NoParent, asked |-> FALSE,
          Inherits |-> << >>, inherits |-> << >>]
NotParsed == [kind |-> "none"]
NoTool ==
    /\ sub = NoSub
    /\ tu = << >>
    /\ skip_list = {}
    /\ parsed = NotParsed

Init ==
    /\ cls \in ScenarioClasses
    /\ layout \in Layouts(Len(cls))
    /\ NoObject
    /\ NoTool

\* Any class declaration impl_class! accepts, before its first object.
InitCast ==
    /\ cls \in ClassDecls
    /\ layout \in Layouts(Len(cls))
    /\ NoObject
    /\ NoTool

FreshWrapper == CHOOSE w \in WrapperIds \ wrappers :
                    \A v \in WrapperIds \ wrappers : w <= v

Add(bag, p) == bag (+) SetToBag({p})
Remove(bag, p) == bag (-) SetToBag({p})

\* ------------------------------------------------- ComWrapper operations

\* ComWrapper::new(data): Arc::new of { header: C::header::<Self>(), data }.
New(b) ==
    /\ inner = NullPtr
    /\ inner' = b
    /\ hdr' = header(cls, layout)
    /\ strong' = 1
    /\ wrappers' = {FreshWrapper}
    /\ last' = Call("new", 0, None)
    /\ UNCHANGED <<classVars, toolVars, deallocs, comptrs, raws, refs, threadVars>>

\* A clone that copies the contents into an allocation of its own.
CloneDeep(w) ==
    /\ w \in wrappers
    /\ HandleCount < MaxHandles
    /\ inner' = CHOOSE b \in Bases : b # inner
    /\ hdr' = header(cls, layout)
    /\ strong' = increment_strong_count(strong)
    /\ wrappers' = wrappers \cup {FreshWrapper}
    /\ last' = Call("clone", 0, None)
    /\ UNCHANGED <<classVars, toolVars, deallocs, comptrs, raws, refs, threadVars>>

\* ComWrapper::clone: clones the Arc.
Clone(w) ==
    /\ w \in wrappers
    /\ HandleCount < MaxHandles
    /\ strong' = increment_strong_count(strong)
    /\ wrappers' = wrappers \cup {FreshWrapper}
    /\ last' = Call("clone", 0, None)
    /\ UNCHANGED <<classVars, toolVars, inner, hdr, deallocs, comptrs, raws, refs, threadVars>>

\* Dropping a ComWrapper value drops its Arc. A wrapper that a ComRef borrows
\* from cannot be dropped while the ComRef lives.
DropWrapper(w) ==
    /\ w \in wrappers
    /\ \A r \in BagToSet(refs) : r.from # w
    /\ wrappers' = wrappers \ {w}
    /\ strong' = decrement_strong_count(strong).count
    /\ deallocs' = Freed(decrement_strong_count(strong))
    /\ last' = Call("drop_wrapper", 0, None)
    /\ UNCHANGED <<classVars, toolVars, inner, hdr, comptrs, raws, refs, threadVars>>

\* Class::query_interface called on the class itself.
ClassQueryInterface(iid) ==
    /\ last' = Call("Class::query_interface", iid, query_interface(cls, layout, iid))
    /\ UNCHANGED <<classVars, toolVars, inner, hdr, strong, deallocs, wrappers, comptrs,
                   raws, refs, threadVars>>

\* as_com_ref taking its address from Arc::into_raw(self.inner.clone()), as
\* to_com_ptr does.
AsComRefCloning(w, i) ==
    LET q == query_interface(cls, layout, IID[i])
        ptr == interface_ptr(inner, q.val)
    IN  /\ w \in wrappers
        /\ q.some => BagCardinality(refs) < MaxRefs
        /\ strong' = IF q.some THEN increment_strong_count(strong) ELSE strong
        /\ refs' = IF q.some THEN Add(refs, [from |-> w, ptr |-> ptr]) ELSE refs
        /\ last' = Call("as_com_ref", IID[i], IF q.some THEN Some(ptr) ELSE None)
        /\ UNCHANGED <<classVars, toolVars, inner, hdr, deallocs, wrappers, comptrs,
                       raws, threadVars>>

\* ComWrapper::as_com_ref::<I>(): no count change; the ComRef borrows from w.
AsComRef(w, i) ==
    LET q == query_interface(cls, layout, IID[i])
        wrapper_ptr == inner
        ptr == interface_ptr(wrapper_ptr, q.val)
    IN  /\ w \in wrappers
        /\ q.some => BagCardinality(refs) < MaxRefs
        /\ refs' = IF q.some THEN Add(refs, [from |-> w, ptr |-> ptr]) ELSE refs
        /\ last' = Call("as_com_ref", IID[i], IF q.some THEN Some(ptr) ELSE None)
        /\ UNCHANGED <<classVars, toolVars, inner, hdr, strong, deallocs, wrappers, comptrs,
                       raws, threadVars>>

\* A ComRef going out of scope: it has no destructor.
DropComRef(r) ==
    /\ r \in BagToSet(refs)
    /\ refs' = Remove(refs, r)
    /\ last' = Call("drop_com_ref", 0, None)
    /\ UNCHANGED <<classVars, toolVars, inner, hdr, strong, deallocs, wrappers, comptrs,
                   raws, threadVars>>

\* to_com_ptr taking its address from Arc::as_ptr(&self.inner), as as_com_ref
\* does: no clone.
ToComPtrNoClone(w, i) ==
    LET q == query_interface(cls, layout, IID[i])
        ptr == interface_ptr(inner, q.val)
    IN  /\ w \in wrappers
        /\ q.some => HandleCount < MaxHandles
        /\ comptrs' = IF q.some THEN Add(comptrs, ptr) ELSE comptrs
        /\ last' = Call("to_com_ptr", IID[i], IF q.some THEN Some(ptr) ELSE None)
        /\ UNCHANGED <<classVars, toolVars, inner, hdr, strong, deallocs, wrappers, raws, refs,
                       threadVars>>

\* to_com_ptr cloning the Arc before the lookup, so a failed lookup leaves
\* the clone's unit behind.
ToComPtrCloneFirst(w, i) ==
    LET q == query_interface(cls, layout, IID[i])
        ptr == interface_ptr(inner, q.val)
    IN  /\ w \in wrappers
        /\ HandleCount < MaxHandles
        /\ strong' = increment_strong_count(strong)
        /\ comptrs' = IF q.some THEN Add(comptrs, ptr) ELSE comptrs
        /\ last' = Call("to_com_ptr", IID[i], IF q.some THEN Some(ptr) ELSE None)
        /\ UNCHANGED <<classVars, toolVars, inner, hdr, deallocs, wrappers, raws, refs,
                       threadVars>>

\* ComWrapper::to_com_ptr::<I>(): on a match, Arc::into_raw(self.inner.clone())
\* and a ComPtr made from the interface address.
ToComPtr(w, i) ==
    LET q == query_interface(cls, layout, IID[i])
        wrapper_ptr == inner
        ptr == interface_ptr(wrapper_ptr, q.val)
    IN  /\ w \in wrappers
        /\ q.some => HandleCount < MaxHandles
        /\ strong' = IF q.some THEN increment_strong_count(strong) ELSE strong
        /\ comptrs' = IF q.some THEN Add(comptrs, ptr) ELSE comptrs
        /\ last' = Call("to_com_ptr", IID[i], IF q.some THEN Some(ptr) ELSE None)
        /\ UNCHANGED <<classVars, toolVars, inner, hdr, deallocs, wrappers, raws, refs,
                       threadVars>>

\* ------------------------------------- calls through an interface pointer

\* Arc::from_raw(wrapper_ptr) is defined only for the address a live Arc gave.
valid_arc(wrapper_ptr) == wrapper_ptr = inner /\ inner # NullPtr /\ deallocs = 0

\* Outcomes of a count operation through an address that is no live Arc's.
Undefined == 0..(MaxHandles + 1)
UndefinedDrop == [count : Undefined, freed : BOOLEAN]

\* Wrapper::add_ref(ptr): the value of `result`, read from Arc::strong_count.
add_ref_result(n) == n + 1
add_ref_results(ptr) ==
    IF valid_arc(wrapper_ptr_of(ptr)) THEN {add_ref_result(strong)} ELSE Undefined
\* add_ref without its Arc::increment_strong_count.
add_ref_counts_no_increment(ptr) == {strong}
\* Wrapper::add_ref(ptr): the count after Arc::increment_strong_count(wrapper_ptr).
add_ref_counts(ptr) ==
    IF valid_arc(wrapper_ptr_of(ptr)) THEN {increment_strong_count(strong)} ELSE Undefined

\* Wrapper::release(ptr): the value of `result`, read from Arc::strong_count.
release_result(n) == n - 1
release_results(ptr) ==
    IF valid_arc(wrapper_ptr_of(ptr)) THEN {release_result(strong)} ELSE Undefined
\* release without its Arc::decrement_strong_count.
release_counts_no_decrement(ptr) == {[count |-> strong, freed |-> FALSE]}
\* release without `let _ = Arc::into_raw(arc)`: the temporary Arc is dropped
\* as well, a second decrement.
release_counts_twice(ptr) ==
    LET first == decrement_strong_count(strong)
        second == decrement_strong_count(first.count)
    IN  {[count |-> second.count, freed |-> first.freed \/ second.freed]}
\* Wrapper::release(ptr): the effect of Arc::decrement_strong_count(wrapper_ptr).
release_counts(ptr) ==
    IF valid_arc(wrapper_ptr_of(ptr)) THEN {decrement_strong_count(strong)}
    ELSE UndefinedDrop

\* Interface addresses some live handle holds.
Reachable == BagToSet(comptrs) \cup BagToSet(raws) \cup {r.ptr : r \in BagToSet(refs)}

\* Unknown::add_ref(this) on an interface address; the caller then owns one
\* more unit through that address.
AddRef(this) ==
    /\ this \in Reachable
    /\ HandleCount < MaxHandles
    /\ \E r \in add_ref_results(this_to_data(this)) :
          last' = Call("add_ref", 0, Some(r))
    /\ strong' \in add_ref_counts(this_to_data(this))
    /\ raws' = Add(raws, this)
    /\ UNCHANGED <<classVars, toolVars, inner, hdr, deallocs, wrappers, comptrs, refs,
                   threadVars>>

\* Unknown::release(this) on a raw owning address: gives up that unit.
Release(this) ==
    /\ this \in BagToSet(raws)
    /\ raws' = Remove(raws, this)
    /\ \E r \in release_results(this_to_data(this)) :
          last' = Call("release", 0, Some(r))
    /\ \E d \in release_counts(this_to_data(this)) :
          strong' = d.count /\ deallocs' = Freed(d)
    /\ UNCHANGED <<classVars, toolVars, inner, hdr, wrappers, comptrs, refs, threadVars>>

\* Dropping a ComPtr: one Unknown::release on its address.
DropComPtr(this) ==
    /\ this \in BagToSet(comptrs)
    /\ comptrs' = Remove(comptrs, this)
    /\ \E r \in release_results(this_to_data(this)) :
          last' = Call("drop_com_ptr", 0, Some(r))
    /\ \E d \in release_counts(this_to_data(this)) :
          strong' = d.count /\ deallocs' = Freed(d)
    /\ UNCHANGED <<classVars, toolVars, inner, hdr, wrappers, raws, refs, threadVars>>

\* Unknown::query_interface(this, iid) on an interface address: on a match the
\* count is incremented and the matching field's address returned.
QueryInterface(this, iid) ==
    LET q == query_interface(cls, layout, iid)
        data == this_to_data(this)
        ptr == header_from_data(data) + q.val
    IN  /\ this \in Reachable
        /\ q.some => HandleCount < MaxHandles
        /\ strong' \in IF q.some THEN add_ref_counts(data) ELSE {strong}
        /\ raws' = IF q.some THEN Add(raws, ptr) ELSE raws
        /\ last' = Call("query_interface", iid, IF q.some THEN Some(ptr) ELSE None)
        /\ UNCHANGED <<classVars, toolVars, inner, hdr, deallocs, wrappers, comptrs, refs,
                       threadVars>>

\* ------------------------------------------------------ specification

Next ==
    \/ \E b \in Bases : New(b)
    \/ \E w \in WrapperIds : Clone(w)
    \/ \E w \in WrapperIds : DropWrapper(w)
    \/ \E w \in WrapperIds, i \in Interfaces : AsComRef(w, i)
    \/ \E r \in BagToSet(refs) : DropComRef(r)
    \/ \E w \in WrapperIds, i \in Interfaces : ToComPtr(w, i)
    \/ \E p \in Reachable : AddRef(p)
    \/ \E p \in BagToSet(raws) : Release(p)
    \/ \E p \in BagToSet(comptrs) : DropComPtr(p)
    \/ \E p \in Reachable, iid \in Guids : QueryInterface(p, iid)

Spec == Init /\ [][Next]_vars

\* The casts alone, on an object of any class declaration.
NextCast ==
    \/ \E b \in Bases : New(b)
    \/ \E iid \in Guids : ClassQueryInterface(iid)
    \/ \E w \in WrapperIds, i \in Interfaces : AsComRef(w, i)
    \/ \E r \in BagToSet(refs) : DropComRef(r)
    \/ \E w \in WrapperIds, i \in Interfaces : ToComPtr(w, i)
    \/ \E p \in BagToSet(comptrs) : DropComPtr(p)

SpecCast == InitCast /\ [][NextCast]_vars

\* ------------------------------------------------ the round trip

\* ComWrapper::new, one successful to_com_ptr, then the wrapper dropped and
\* the ComPtr dropped, in either order, and nothing else.
NextRoundTrip ==
    \/ \E b \in Bases : New(b)
    \/ /\ last.op = "new"
       /\ \E w \in WrapperIds, i \in Interfaces :
             query_interface(cls, layout, IID[i]).some /\ ToComPtr(w, i)
    \/ /\ last.op \in {"to_com_ptr", "drop_com_ptr"}
       /\ \E w \in WrapperIds : DropWrapper(w)
    \/ /\ last.op \in {"to_com_ptr", "drop_wrapper"}
       /\ \E p \in BagToSet(comptrs) : DropComPtr(p)

SpecRoundTrip == InitCast /\ [][NextRoundTrip]_vars

\* ------------------------------------------------ foreign threads

\* The interface address thread t was handed: the threads' pointers are
\* spread over the interfaces of the class.
ThreadField(t) ==
    field_addr(inner + inner_header_offset, layout, ((t - 1) % Len(cls)) + 1)

\* An object of the scenario class whose interface pointers foreign threads
\* hold: each thread owns one or more units through one address, and the
\* creating thread may still keep its wrapper.
InitConc ==
    /\ cls = <<"A", "B">>
    /\ layout \in Layouts(Len(cls))
    /\ inner \in Bases
    /\ hdr = header(cls, layout)
    /\ deallocs = 0
    /\ wrappers \in {{}, {1}}
    /\ comptrs = EmptyBag
    /\ raws = EmptyBag
    /\ refs = EmptyBag
    /\ last = NoCall
    /\ pc = [t \in Threads |-> "idle"]
    /\ cur = [t \in Threads |-> NullPtr]
    /\ result = [t \in Threads |-> None]
    /\ \E n \in [Threads -> 1..MaxHeld] :
          held = [t \in Threads |-> [p \in {ThreadField(t)} |-> n[t]]]
    /\ strong = HandleCount
    /\ freedBy = 0
    /\ NoTool

sharedVars == <<cls, layout, inner, hdr, wrappers, comptrs, raws, refs, last,
               toolVars>>

\* add_ref, up to `let _ = Arc::into_raw(arc)`: the count is read into `result`.
AddRefRead(t, this) ==
    /\ pc[t] = "idle"
    /\ this \in BagToSet(held[t])
    /\ BagCardinality(held[t]) < MaxHeld
    /\ cur' = [cur EXCEPT ![t] = this]
    /\ result' \in {[result EXCEPT ![t] = Some(r)] : r \in add_ref_results(this_to_data(this))}
    /\ pc' = [pc EXCEPT ![t] = "add_ref_inc"]
    /\ UNCHANGED <<sharedVars, strong, deallocs, held, freedBy>>

\* add_ref storing the count it computed from its earlier read, in place of
\* the atomic increment.
AddRefIncStale(t) ==
    /\ pc[t] = "add_ref_inc"
    /\ strong' = result[t].val
    /\ held' = [held EXCEPT ![t] = Add(held[t], cur[t])]
    /\ cur' = [cur EXCEPT ![t] = NullPtr]
    /\ pc' = [pc EXCEPT ![t] = "idle"]
    /\ UNCHANGED <<sharedVars, deallocs, result, freedBy>>

\* add_ref, from Arc::increment_strong_count to the return of `result`.
AddRefInc(t) ==
    /\ pc[t] = "add_ref_inc"
    /\ strong' \in add_ref_counts(this_to_data(cur[t]))
    /\ held' = [held EXCEPT ![t] = Add(held[t], cur[t])]
    /\ cur' = [cur EXCEPT ![t] = NullPtr]
    /\ pc' = [pc EXCEPT ![t] = "idle"]
    /\ UNCHANGED <<sharedVars, deallocs, result, freedBy>>

\* release, up to `let _ = Arc::into_raw(arc)`: the count is read into `result`.
ReleaseRead(t, this) ==
    /\ pc[t] = "idle"
    /\ this \in BagToSet(held[t])
    /\ held' = [held EXCEPT ![t] = Remove(held[t], this)]
    /\ cur' = [cur EXCEPT ![t] = this]
    /\ result' \in {[result EXCEPT ![t] = Some(r)] : r \in release_results(this_to_data(this))}
    /\ pc' = [pc EXCEPT ![t] = "release_dec"]
    /\ UNCHANGED <<sharedVars, strong, deallocs, freedBy>>

\* release, from Arc::decrement_strong_count to the return of `result`.
ReleaseDec(t) ==
    /\ pc[t] = "release_dec"
    /\ \E d \in release_counts(this_to_data(cur[t])) :
          /\ strong' = d.count
          /\ deallocs' = Freed(d)
          /\ freedBy' = IF d.freed THEN t ELSE freedBy
    /\ cur' = [cur EXCEPT ![t] = NullPtr]
    /\ pc' = [pc EXCEPT ![t] = "idle"]
    /\ UNCHANGED <<sharedVars, result, held>>

NextConc ==
    \/ \E t \in Threads, p \in FieldAddrs : AddRefRead(t, p)
    \/ \E t \in Threads : AddRefInc(t)
    \/ \E t \in Threads, p \in FieldAddrs : ReleaseRead(t, p)
    \/ \E t \in Threads : ReleaseDec(t)

SpecConc == InitConc /\ [][NextConc]_vars

\* ------------------------------------------------ boundary smart pointers

\* ComPtr::from_raw(ptr): takes over the unit the raw address carries.
ComPtrFromRaw(p) ==
    /\ p \in BagToSet(raws)
    /\ raws' = Remove(raws, p)
    /\ comptrs' = Add(comptrs, p)
    /\ last' = Call("ComPtr::from_raw", 0, Some(p))
    /\ UNCHANGED <<classVars, toolVars, inner, hdr, strong, deallocs, wrappers, refs,
                   threadVars>>

\* ComPtr::as_ptr(&self): the address, the ComPtr kept.
ComPtrAsPtr(p) ==
    /\ p \in BagToSet(comptrs)
    /\ last' = Call("ComPtr::as_ptr", 0, Some(p))
    /\ UNCHANGED <<classVars, toolVars, inner, hdr, strong, deallocs, wrappers, comptrs,
                   raws, refs, threadVars>>

\* ComPtr::into_raw(self): the address, the ComPtr forgotten without a release.
ComPtrIntoRaw(p) ==
    /\ p \in BagToSet(comptrs)
    /\ comptrs' = Remove(comptrs, p)
    /\ raws' = Add(raws, p)
    /\ last' = Call("ComPtr::into_raw", 0, Some(p))
    /\ UNCHANGED <<classVars, toolVars, inner, hdr, strong, deallocs, wrappers, refs,
                   threadVars>>

\* The lender of a ComRef made from a raw address: no wrapper, but the owner
\* of a unit at that address.
RawLender == 0

\* ComRef::from_raw(ptr) on an address whose owner keeps it alive for the
\* ComRef's scope.
ComRefFromRaw(p) ==
    /\ p \in BagToSet(comptrs) \cup BagToSet(raws)
    /\ BagCardinality(refs) < MaxRefs
    /\ refs' = Add(refs, [from |-> RawLender, ptr |-> p])
    /\ last' = Call("ComRef::from_raw", 0, Some(p))
    /\ UNCHANGED <<classVars, toolVars, inner, hdr, strong, deallocs, wrappers, comptrs,
                   raws, threadVars>>

\* ComRef::as_ptr(&self): the ComRef used as a raw address.
ComRefAsPtr(r) ==
    /\ r \in BagToSet(refs)
    /\ last' = Call("ComRef::as_ptr", 0, Some(r.ptr))
    /\ UNCHANGED <<classVars, toolVars, inner, hdr, strong, deallocs, wrappers, comptrs,
                   raws, refs, threadVars>>

\* ComRef::to_com_ptr(&self): Unknown::add_ref on the address, and a ComPtr
\* made from it.
ComRefToComPtr(r) ==
    /\ r \in BagToSet(refs)
    /\ HandleCount < MaxHandles
    /\ strong' \in add_ref_counts(this_to_data(r.ptr))
    /\ comptrs' = Add(comptrs, r.ptr)
    /\ last' = Call("ComRef::to_com_ptr", 0, Some(r.ptr))
    /\ UNCHANGED <<classVars, toolVars, inner, hdr, deallocs, wrappers, raws, refs,
                   threadVars>>

\* A ComRef made from a raw address is in scope only while an owner holds a
\* unit through that address.
InScope ==
    \A r \in BagToSet(refs) :
        r.from = RawLender => r.ptr \in BagToSet(comptrs) \cup BagToSet(raws)

\* Owning pointers and their conversions to and from raw addresses.
NextOwn ==
    \/ \E b \in Bases : New(b)
    \/ \E w \in WrapperIds, i \in Interfaces : ToComPtr(w, i)
    \/ \E w \in WrapperIds : DropWrapper(w)
    \/ \E p \in BagToSet(raws) : ComPtrFromRaw(p)
    \/ \E p \in BagToSet(comptrs) : ComPtrAsPtr(p)
    \/ \E p \in BagToSet(comptrs) : ComPtrIntoRaw(p)
    \/ \E p \in BagToSet(comptrs) : DropComPtr(p)
    \/ \E p \in BagToSet(raws) : Release(p)

SpecOwn == Init /\ [][NextOwn]_vars

\* Borrowing pointers: made by the wrapper or from a raw address, used,
\* upgraded and discarded, while their lenders keep them in scope.
NextBorrow ==
    \/ \E b \in Bases : New(b)
    \/ \E w \in WrapperIds : DropWrapper(w)
    \/ \E w \in WrapperIds, i \in Interfaces : AsComRef(w, i)
    \/ \E p \in Reachable : AddRef(p)
    \/ \E p \in BagToSet(raws) : Release(p) /\ InScope'
    \/ \E p \in BagToSet(comptrs) \cup BagToSet(raws) : ComRefFromRaw(p)
    \/ \E r \in BagToSet(refs) : ComRefAsPtr(r)
    \/ \E r \in BagToSet(refs) : ComRefToComPtr(r)
    \/ \E r \in BagToSet(refs) : DropComRef(r)
    \/ \E p \in BagToSet(comptrs) : DropComPtr(p) /\ InScope'

SpecBorrow == Init /\ [][NextBorrow]_vars

\* ------------------------------------------------ fair scheduling

\* A thread drops the wrapper value (ComWrapper is Send and Sync, so any
\* thread may own it): the drop of its Arc, one atomic decrement.
DropWrapperBy(t, w) ==
    /\ pc[t] = "idle"
    /\ w \in wrappers
    /\ \A r \in BagToSet(refs) : r.from # w
    /\ wrappers' = wrappers \ {w}
    /\ LET d == decrement_strong_count(strong)
       IN  /\ strong' = d.count
           /\ deallocs' = Freed(d)
           /\ freedBy' = IF d.freed THEN t ELSE freedBy
    /\ UNCHANGED <<classVars, toolVars, inner, hdr, comptrs, raws, refs, last,
                   pc, cur, result, held>>

NextFair ==
    \/ \E t \in Threads, p \in FieldAddrs : AddRefRead(t, p)
    \/ \E t \in Threads : AddRefInc(t)
    \/ \E t \in Threads, p \in FieldAddrs : ReleaseRead(t, p)
    \/ \E t \in Threads : ReleaseDec(t)
    \/ \E t \in Threads, w \in WrapperIds : DropWrapperBy(t, w)

\* Every thread is scheduled: a call it is inside of returns, and a handle
\* it owns is released or dropped unless it keeps acquiring.
Fairness ==
    /\ \A t \in Threads : WF_vars(AddRefInc(t))
    /\ \A t \in Threads : WF_vars(ReleaseDec(t))
    /\ \A t \in Threads : WF_vars(\E p \in FieldAddrs : ReleaseRead(t, p))
    /\ WF_vars(\E t \in Threads, w \in WrapperIds : DropWrapperBy(t, w))

\* The shared object of InitConc, at the first address and in declaration
\* layout: neither changes which steps the threads can take.
InitFair ==
    /\ InitConc
    /\ inner = 4096
    /\ layout = [k \in 1..Len(cls) |-> k]

SpecFair == InitFair /\ [][NextFair]_vars /\ Fairness

\* ------------------------------------------------ the subtyping relation

\* One class and no object: the state of the runtime while a question about
\* the interface types or a run of the generator is looked at.
OneClass ==
    /\ cls = <<"A", "B">>
    /\ layout = [k \in 1..2 |-> k]
    /\ NoObject

\* Any three interface types a, b, c.
InitSubtype ==
    /\ OneClass
    /\ \E a, b, c \in Interfaces :
          sub = [NoSub EXCEPT !.a = a, !.b = b, !.c = c]
    /\ tu = << >>
    /\ skip_list = {}
    /\ parsed = NotParsed

\* Both subtyping tests evaluated on the pairs of a, b, c: the trait bound
\* I: Inherits<J>, and I::inherits(&J::IID).
AskSubtyping ==
    /\ ~sub.asked
    /\ sub' = [sub EXCEPT
                 !.asked = TRUE,
                 !.Inherits = [aa |-> Inherits(sub.a, sub.a),
                               ab |-> Inherits(sub.a, sub.b),
                               bc |-> Inherits(sub.b, sub.c),
                               ac |-> Inherits(sub.a, sub.c)],
                 !.inherits = [aa |-> inherits(sub.a, IID[sub.a]),
                               ab |-> inherits(sub.a, IID[sub.b]),
                               bc |-> inherits(sub.b, IID[sub.c]),
                               ac |-> inherits(sub.a, IID[sub.c])]]
    /\ UNCHANGED <<classVars, inner, hdr, strong, deallocs, wrappers, comptrs, raws,
                   refs, last, threadVars, tu, skip_list, parsed>>

SpecSubtype == InitSubtype /\ [][AskSubtyping]_vars

\* ------------------------------------------------ the generator's parser

\* clang::Type values: a primitive kind, a kind parse_type has no arm for, a
\* pointer, a typedef (declared in a system header or not) and a record type;
\* `members` are the children of the record's declaration.
TInt == [kind |-> "Int", is_const |-> FALSE]
TUnhandled == [kind |-> "FunctionProto", is_const |-> FALSE]
TPointer(t) == [kind |-> "Pointer", is_const |-> FALSE, pointee |-> t]
TTypedef(name, sys, underlying) ==
    [kind |-> "Typedef", is_const |-> FALSE, name |-> name, sys |-> sys,
     underlying |-> underlying]
TRecord(name, members) ==
    [kind |-> "Record", is_const |-> FALSE, name |-> name, members |-> members]

\* Result<T, Box<dyn Error>>, and a panic unwinding through the caller.
Ok(v) == [st |-> "ok", val |-> v]
Err(location, kind) == [st |-> "err", loc |-> location, msg |-> kind]
Panic(location) == [st |-> "panic", loc |-> location]

\* Result::unwrap: a panic on Err.
unwrap(r) == IF r.st = "err" THEN Panic(r.loc) ELSE r
\* (The `?` operator hands an Err on to the caller: below, every `ELSE r` that
\* returns a result that is not ok.)

\* The location of child j of the cursor at location `base`.
child_location(base, j) == base * 10 + j

RECURSIVE parse_type(_, _)
RECURSIVE parse_record(_, _)
RECURSIVE parse_members(_, _, _, _)
RECURSIVE parse_arguments(_, _, _, _)

\* Parser::parse_type(type_, location)
parse_type(type_, location) ==
    CASE type_.kind = "Int" -> Ok([kind |-> "Int"])
      [] type_.kind = "Pointer" ->
            LET pointee == parse_type(type_.pointee, location)
            IN  IF pointee.st = "ok"
                THEN Ok([kind |-> "Pointer", is_const |-> type_.pointee.is_const,
                         pointee |-> pointee.val])
                ELSE pointee
      [] type_.kind = "Record" ->
            IF type_.name = ""
            THEN LET record == parse_record(type_, location)
                 IN  IF record.st = "ok"
                     THEN Ok([kind |-> "UnnamedRecord", record |-> record.val])
                     ELSE record
            ELSE Ok([kind |-> "Record", name |-> type_.name])
      [] type_.kind = "Typedef" ->
            IF type_.sys
            THEN parse_type(type_.underlying, location)
            ELSE Ok([kind |-> "Typedef", name |-> type_.name])
      [] OTHER -> Err(location, type_.kind)

\* The `for i in 0..cursor.num_arguments()` loop of parse_record; the location
\* of argument i is the argument cursor's own.
parse_arguments(args, i, method_location, arguments) ==
    IF i > Len(args) THEN Ok(arguments)
    ELSE LET arg_type == parse_type(args[i].type, child_location(method_location, i))
         IN  IF arg_type.st = "ok"
             THEN parse_arguments(args, i + 1, method_location,
                      Append(arguments, [name |-> args[i].name, type_ |-> arg_type.val]))
             ELSE arg_type

\* The closure parse_record hands to decl.visit_children, on child j onwards.
parse_members(members, j, base, rec) ==
    IF j > Len(members) THEN Ok(rec)
    ELSE
      LET cursor == members[j]
          location == child_location(base, j)
      IN  CASE cursor.kind \in {"FieldDecl", "UnionDecl"} ->
                 LET type_ == parse_type(cursor.type, location)
                 IN  IF type_.st = "ok"
                     THEN parse_members(members, j + 1, base,
                              [rec EXCEPT !.fields =
                                  Append(@, [name |-> cursor.name, type_ |-> type_.val])])
                     ELSE type_
            [] cursor.kind = "CxxMethod" ->
                 IF cursor.virtual
                 THEN LET arguments == parse_arguments(cursor.args, 1, location, << >>)
                          result_type == unwrap(parse_type(cursor.result, location))
                      IN  IF arguments.st # "ok" THEN arguments
                          ELSE IF result_type.st # "ok" THEN result_type
                          ELSE parse_members(members, j + 1, base,
                                   [rec EXCEPT !.virtual_methods =
                                       Append(@, [name |-> cursor.name,
                                                  arguments |-> arguments.val,
                                                  result_type |-> result_type.val])])
                 ELSE parse_members(members, j + 1, base, rec)
            [] cursor.kind = "CxxBaseSpecifier" ->
                 parse_members(members, j + 1, base,
                     [rec EXCEPT !.bases = Append(@, cursor.name)])
            [] OTHER -> parse_members(members, j + 1, base, rec)

\* Parser::parse_record(record); `base` is the location of its declaration.
parse_record(record, base) ==
    parse_members(record.members, 1, base,
        [name |-> record.name, kind |-> "Struct", fields |-> << >>, bases |-> << >>,
         virtual_methods |-> << >>])

\* Namespace::new(), without its children: the namespace tree is kept as a
\* map from the path of a namespace (the names from the root down) to its
\* typedefs and records, a child of the namespace at path q being every
\* q \o <<name>> in the map.
Namespace_new == [typedefs |-> << >>, records |-> << >>]

\* The path of the namespace the parser is in: the names of the namespaces
\* among the open cursors.
ns_path(stack) ==
    LET opened == SelectSeq(stack, LAMBDA e : e.kind = "Namespace")
    IN  [k \in 1..Len(opened) |-> opened[k].name]

\* The namespace arm inserting Namespace::new() whether or not the child is
\* there already.
open_namespace_replacing(ns, path) ==
    [q \in DOMAIN ns \cup {path} |-> IF q = path THEN Namespace_new ELSE ns[q]]
\* `if !children.contains_key(name) { children.insert(name, Namespace::new()) }`
open_namespace(ns, path) ==
    [q \in DOMAIN ns \cup {path} |-> IF q \in DOMAIN ns THEN ns[q] ELSE Namespace_new]

\* The number of typedefs and records of a namespace.
held_by(namespace) == Len(namespace.typedefs) + Len(namespace.records)

\* An Err or a panic leaving Namespace::parse.
fail(p, r) == [p EXCEPT !.kind = r.st, !.loc = r.loc]

\* Parser::visit(namespace, cursor) up to the visit of the cursor's children:
\* p is the parser's state, `location` the cursor's location.
visit(p, cursor, location) ==
    LET path == ns_path(p.stack)
    IN  IF cursor.sys THEN p
        ELSE IF cursor.name \in skip_list THEN p
        ELSE CASE cursor.kind = "Namespace" ->
                    IF cursor.name = "" THEN p
                    ELSE LET child == Append(path, cursor.name)
                             children == open_namespace(p.ns, child)
                         IN  [p EXCEPT !.ns = children,
                                       !.stack = Append(@, [kind |-> "Namespace",
                                                            name |-> cursor.name,
                                                            had |-> held_by(children[child])])]
               [] cursor.kind \in {"TypedefDecl", "TypeAliasDecl"} ->
                    LET type_ == parse_type(cursor.type, location)
                    IN  IF type_.st = "ok"
                        THEN [p EXCEPT !.ns[path].typedefs =
                                 Append(@, [name |-> cursor.name, type_ |-> type_.val])]
                        ELSE fail(p, type_)
               [] cursor.kind \in {"StructDecl", "ClassDecl"} ->
                    IF cursor.def
                    THEN LET record == IF cursor.name # ""
                                       THEN parse_record(cursor, location)
                                       ELSE Ok(<< >>)
                             scope == [kind |-> "Record", name |-> cursor.name, had |-> 0]
                         IN  IF record.st # "ok" THEN fail(p, record)
                             ELSE IF cursor.name # ""
                             THEN [p EXCEPT !.ns[path].records = Append(@, record.val),
                                            !.stack = Append(@, scope)]
                             ELSE [p EXCEPT !.stack = Append(@, scope)]
                    ELSE p
               [] OTHER -> p

\* Cursors and their children as clang hands them over.
NoType == [kind |-> "None", is_const |-> FALSE]
Cursor(kind, name, sys, def, type, members) ==
    [kind |-> kind, name |-> name, sys |-> sys, def |-> def, type |-> type,
     members |-> members]
NoCursor == Cursor("None", "", FALSE, FALSE, NoType, << >>)
Field(name, type) ==
    [kind |-> "FieldDecl", name |-> name, type |-> type, virtual |-> FALSE,
     args |-> << >>, result |-> NoType]
Method(name, virtual, arg, ret) ==
    [kind |-> "CxxMethod", name |-> name, type |-> NoType, virtual |-> virtual,
     args |-> <<[name |-> "x", type |-> arg]>>, result |-> ret]
BaseSpecifier(name) ==
    [kind |-> "CxxBaseSpecifier", name |-> name, type |-> NoType, virtual |-> FALSE,
     args |-> << >>, result |-> NoType]
Struct(name, def, members) == Cursor("StructDecl", name, FALSE, def, NoType, members)
Typedef(name, sys, type) == Cursor("TypedefDecl", name, sys, FALSE, type, << >>)

\* The declarations of the headers: namespaces N and M and an unnamed one;
\* typedefs of an int, of a system typedef of an int, of a kind parse_type has
\* no arm for (directly, behind a pointer, under a name of the skip list, in
\* a system header) and of an unnamed struct; structs with a field, a virtual
\* method or a non-virtual method whose types are handled or not, a forward
\* declaration, an unnamed struct; and a function.
NamespaceCursors == {Cursor("Namespace", n, FALSE, FALSE, NoType, << >>) : n \in {"N", "M", ""}}
TypedefCursors ==
    {Typedef("T", FALSE, TInt),
     Typedef("U", FALSE, TTypedef("size_t", TRUE, TInt)),
     Typedef("T", FALSE, TUnhandled),
     Typedef("T", FALSE, TPointer(TUnhandled)),
     Typedef("S", FALSE, TUnhandled),
     Typedef("H", TRUE, TUnhandled),
     Typedef("T", FALSE, TRecord("", <<Method("f", TRUE, TInt, TUnhandled)>>))}
StructCursors ==
    {Struct("R", TRUE, <<BaseSpecifier("B"), Field("a", TInt), Method("f", TRUE, TInt, TInt)>>),
     Struct("R", TRUE, <<Field("a", TUnhandled)>>),
     Struct("R", TRUE, <<Method("f", TRUE, TUnhandled, TInt)>>),
     Struct("R", TRUE, <<Method("f", TRUE, TInt, TUnhandled)>>),
     Struct("R", TRUE, <<Method("f", TRUE, TUnhandled, TUnhandled)>>),
     Struct("R", TRUE, <<Method("f", FALSE, TUnhandled, TUnhandled)>>),
     Struct("R", FALSE, << >>),
     Struct("", TRUE, <<Field("a", TUnhandled)>>)}
OtherCursors == {Cursor("FunctionDecl", "g", FALSE, FALSE, NoType, << >>)}
Cursors == NamespaceCursors \cup TypedefCursors \cup StructCursors \cup OtherCursors

\* Namespace::parse(cursor, skip_list) has made its Parser and its root
\* Namespace and is about to visit the children of `cursor`.
InitParse ==
    /\ OneClass
    /\ sub = NoSub
    /\ tu = NoCursor
    /\ skip_list \in {{}, {"S"}}
    /\ parsed = [kind |-> "running", loc |-> 0, count |-> 0, stack |-> << >>,
                 ns |-> [q \in {<< >>} |-> Namespace_new]]

parserFrame == <<classVars, inner, hdr, strong, deallocs, wrappers, comptrs, raws,
                 refs, last, threadVars, sub, skip_list>>

\* visit_children calls Parser::visit on the next cursor it walks to: a
\* declaration of the open scope (a namespace is not declared inside a struct).
Visit(cursor) ==
    /\ parsed.kind = "running"
    /\ parsed.count < MaxDecls
    /\ cursor.kind = "Namespace" => \A k \in 1..Len(parsed.stack) :
                                        parsed.stack[k].kind = "Namespace"
    /\ tu' = cursor
    /\ parsed' = visit([parsed EXCEPT !.count = @ + 1], cursor, parsed.count + 1)
    /\ UNCHANGED parserFrame

\* visit_children has walked the children of the innermost open cursor and
\* returns Ok(()) to the visit of that cursor, which returns Ok(()).
Leave ==
    /\ parsed.kind = "running"
    /\ parsed.stack # << >>
    /\ parsed' = [parsed EXCEPT !.stack = SubSeq(@, 1, Len(@) - 1)]
    /\ UNCHANGED <<parserFrame, tu>>

\* The translation unit has no more children: Namespace::parse returns
\* Ok(namespace).
Finish ==
    /\ parsed.kind = "running"
    /\ parsed.stack = << >>
    /\ parsed' = [parsed EXCEPT !.kind = "ok"]
    /\ UNCHANGED <<parserFrame, tu>>

NextParse ==
    \/ \E cursor \in Cursors : Visit(cursor)
    \/ Leave
    \/ Finish

SpecParse == InitParse /\ [][NextParse]_vars

\* ================================================================ claims

Created == inner # NullPtr
ReleaseOps == {"release", "drop_com_ptr"}

\* C1: in every state reached by new, clone, to_com_ptr, as_com_ref, add_ref,
\* release and drops, the shared count equals the number of live owning
\* handles (wrapper values plus owning interface pointers), whichever
\* interfaces the pointers target.
CountEqualsHandles == strong = HandleCount

\* A wrapper and two owning pointers to two different interfaces are alive.
CountEqualsHandlesWitness ==
    /\ wrappers # {}
    /\ Cardinality(BagToSet(comptrs) \cup BagToSet(raws)) = 2
    /\ strong = 3

\* C2: the allocation is deallocated exactly once, at the step that takes the
\* count from 1 to 0, and never while the count is above 0.
DeallocatedOnce ==
    /\ [](/\ deallocs <= 1
          /\ deallocs = 1 => strong = 0
          /\ (Created /\ HandleCount = 0) => deallocs = 1)
    /\ [][deallocs' # deallocs =>
            (strong = 1 /\ strong' = 0 /\ deallocs' = deallocs + 1)]_vars
    /\ [][(strong = 1 /\ strong' = 0) => deallocs' = deallocs + 1]_vars

\* The last unit was given up by a release through a raw interface address.
DeallocatedOnceWitness == deallocs = 1 /\ last.op = "release"

\* C3: with threads releasing (and acquiring) concurrently, exactly one release
\* call returns 0, and it is the call of the thread that frees the allocation.
ZeroReturnedByFreer ==
    freedBy # 0 =>
        /\ result[freedBy] = Some(0)
        /\ Cardinality({t \in Threads : result[t] = Some(0)}) = 1

\* C4: on a live allocation with count c >= 1, add_ref makes the count c+1 and
\* returns c+1, and release makes it c-1 and returns c-1: each call returns
\* the count that its own increment or decrement produced.
OwnCountReturned ==
    [][\A t \in Threads :
         /\ (pc[t] = "add_ref_inc" /\ pc'[t] = "idle") =>
                (strong' = strong + 1 /\ result'[t] = Some(strong'))
         /\ (pc[t] = "release_dec" /\ pc'[t] = "idle") =>
                (strong' = strong - 1 /\ result'[t] = Some(strong'))]_vars

\* C4 for calls that do not overlap (Spec runs each call as one step): there
\* the returned value is the count the call produced.
ResultingCountReturned ==
    [][/\ last'.op = "add_ref" =>
            (strong >= 1 /\ strong' = strong + 1 /\ last'.some /\ last'.val = strong')
       /\ last'.op \in ReleaseOps =>
            (strong >= 1 /\ strong' = strong - 1 /\ last'.some /\ last'.val = strong')]_vars

\* An add_ref has just returned the count it produced.
ResultingCountReturnedWitness == last.op = "add_ref" /\ last.val = 3 /\ strong = 3

\* The fields of the class whose interface satisfies iid, and the last call's
\* return value as an Option.
Matching(iid) == {k \in 1..Len(cls) : inherits(cls[k], iid)}
First(M) == CHOOSE k \in M : \A j \in M : k <= j
Returned == [some |-> last.some, val |-> last.val]
FieldAddress(k) == inner + HeaderOffset + (layout[k] - 1) * PtrSize
CastOps == {"as_com_ref", "to_com_ptr"}
Unchanged(v) == v' = v

\* C5: Class::query_interface returns the header offset of the first listed
\* interface, in declaration order, that inherits the requested id, and None
\* when none does; with several candidates the first listed wins.
FirstListedWins ==
    last.op = "Class::query_interface" =>
        Returned = IF Matching(last.iid) = {} THEN None
                   ELSE Some((layout[First(Matching(last.iid))] - 1) * PtrSize)

\* The lookup was for the identity of a listed interface, and an interface
\* listed before it, which inherits that identity, won.
FirstListedWinsWitness ==
    /\ last.op = "Class::query_interface"
    /\ \E j, k \in 1..Len(cls) :
          /\ j < k
          /\ IID[cls[k]] = last.iid
          /\ inherits(cls[j], last.iid)
          /\ Returned = Some((layout[j] - 1) * PtrSize)

\* C6: new (count 1), one to_com_ptr (count 2), then the wrapper dropped and
\* the pointer released in either order: the first of the two leaves count 1
\* and frees nothing, the second takes the count to 0 and frees once.
RoundTripFreesOnce ==
    /\ last.op = "new" => (strong = 1 /\ deallocs = 0)
    /\ last.op = "to_com_ptr" => (strong = 2 /\ deallocs = 0)
    /\ (last.op = "drop_wrapper" /\ comptrs # EmptyBag) => (strong = 1 /\ deallocs = 0)
    /\ (last.op = "drop_com_ptr" /\ wrappers # {}) => (strong = 1 /\ deallocs = 0)
    /\ (Created /\ wrappers = {} /\ comptrs = EmptyBag) => (strong = 0 /\ deallocs = 1)

\* The pointer was released first and the drop of the wrapper freed the object.
RoundTripFreesOnceWitness ==
    last.op = "drop_wrapper" /\ comptrs = EmptyBag /\ deallocs = 1

\* C7: producing a ComRef with as_com_ref, for a supported or an unsupported
\* interface, and discarding it leave the shared count and the owning handles
\* as they were.
BorrowLeavesCount ==
    [][last'.op \in {"as_com_ref", "drop_com_ref"} =>
         /\ Unchanged(strong) /\ Unchanged(deallocs)
         /\ Unchanged(wrappers) /\ Unchanged(comptrs) /\ Unchanged(raws)]_vars

\* A ComRef was produced and discarded while other handles were alive.
BorrowLeavesCountWitness ==
    last.op = "drop_com_ref" /\ refs = EmptyBag /\ strong = 2

\* C8: a cast to an interface the class does not implement returns None and
\* leaves the count, the handles and the allocation unchanged.
UnsupportedCastIsNone ==
    [][(last'.op \in CastOps /\ Matching(last'.iid) = {}) =>
         /\ ~last'.some
         /\ Unchanged(strong) /\ Unchanged(deallocs) /\ Unchanged(inner)
         /\ Unchanged(hdr) /\ Unchanged(wrappers) /\ Unchanged(comptrs)
         /\ Unchanged(raws) /\ Unchanged(refs)]_vars

\* A to_com_ptr for an unimplemented interface has just returned None.
UnsupportedCastIsNoneWitness ==
    /\ last.op = "to_com_ptr"
    /\ Matching(last.iid) = {}
    /\ ~last.some
    /\ strong >= 1

\* C9: a successful cast to an owning pointer (to_com_ptr, or query_interface
\* through an interface pointer) increments the count by exactly one, and the
\* address it returns is held together with that unit: an owning address is
\* never held without the allocation being alive and counted.
OwnedCastIncrements ==
    /\ [][(last'.op \in {"to_com_ptr", "query_interface"} /\ last'.some) =>
            /\ strong' = strong + 1
            /\ comptrs' (+) raws' = (comptrs (+) raws) (+) SetToBag({last'.val})]_vars
    /\ [](OwningPointers > 0 => (deallocs = 0 /\ strong >= OwningPointers))

\* A to_com_ptr has just returned an address and the count went from 1 to 2.
OwnedCastIncrementsWitness ==
    last.op = "to_com_ptr" /\ last.some /\ strong = 2 /\ BagCardinality(comptrs) = 1

\* C10 as stated: casting for the identity of a listed interface yields that
\* interface's own field address (header address plus field offset), non-null
\* and distinct for distinct interfaces; an identity no listed interface
\* satisfies yields None.
CastYieldsOwnField ==
    last.op \in CastOps =>
        /\ \A k \in 1..Len(cls) :
              IID[cls[k]] = last.iid =>
                 (last.some /\ last.val = FieldAddress(k) /\ last.val # NullPtr)
        /\ \A j, k \in 1..Len(cls) : j # k => FieldAddress(j) # FieldAddress(k)
        /\ Matching(last.iid) = {} => ~last.some

\* C10 amended: the same, for a listed interface whose identity no interface
\* listed before it inherits.
CastYieldsOwnFieldUnlessShadowed ==
    last.op \in CastOps =>
        /\ \A k \in 1..Len(cls) :
              (IID[cls[k]] = last.iid /\ \A j \in 1..(k - 1) : ~inherits(cls[j], last.iid)) =>
                 (last.some /\ last.val = FieldAddress(k) /\ last.val # NullPtr)
        /\ \A j, k \in 1..Len(cls) : j # k => FieldAddress(j) # FieldAddress(k)
        /\ Matching(last.iid) = {} => ~last.some

\* Both interfaces of a two-interface class have been cast to: two owning
\* pointers at two addresses, the second interface's cast the latest.
CastYieldsOwnFieldWitness ==
    /\ last.op = "to_com_ptr"
    /\ Len(cls) = 2
    /\ last.iid = IID[cls[2]]
    /\ BagToSet(comptrs) = {FieldAddress(1), FieldAddress(2)}
    /\ last.val = FieldAddress(2)

\* C11: the subtyping relation is reflexive and transitive, both as the trait
\* bound I: Inherits<J> and as the predicate I::inherits(&J::IID): a is-a a,
\* and a is-a b and b is-a c give a is-a c.
SubtypingReflexiveTransitive ==
    sub.asked =>
        /\ sub.Inherits.aa
        /\ (sub.Inherits.ab /\ sub.Inherits.bc) => sub.Inherits.ac
        /\ sub.inherits.aa
        /\ (sub.inherits.ab /\ sub.inherits.bc) => sub.inherits.ac

\* A chain of three different interface types: a is-a b, b is-a c, a is-a c.
SubtypingReflexiveTransitiveWitness ==
    /\ sub.asked
    /\ Cardinality({sub.a, sub.b, sub.c}) = 3
    /\ sub.Inherits.ab /\ sub.Inherits.bc /\ sub.Inherits.ac
    /\ sub.inherits.ab /\ sub.inherits.bc /\ sub.inherits.ac

\* C12: under fair scheduling, once no thread acquires any more, every owning
\* handle is released or dropped and the allocation is freed; and whenever it
\* is freed, it is freed by the step of the thread whose decrement took the
\* count from 1 to 0, be it a release or the drop of the wrapper.
FreedByFinalDecrement ==
    /\ (<>[](\A t \in Threads : pc[t] # "add_ref_inc")) => <>(deallocs = 1)
    /\ [][deallocs' # deallocs =>
            /\ strong = 1 /\ strong' = 0
            /\ freedBy' \in Threads
            /\ \/ pc[freedBy'] = "release_dec" /\ pc'[freedBy'] = "idle"
               \/ pc[freedBy'] = "idle" /\ wrappers' # wrappers]_vars

\* The allocation was freed by the last thread's release, after the other
\* thread's releases and the drop of the wrapper.
FreedByFinalDecrementWitness ==
    /\ deallocs = 1
    /\ freedBy = NThreads
    /\ result[freedBy].some
    /\ \A t \in Threads : result[t].some

\* C13: ComPtr::from_raw, as_ptr and into_raw leave the shared count as it
\* is: from_raw and into_raw move one unit between a raw address and a ComPtr
\* at that address (so into_raw followed by from_raw restores the ComPtr with
\* no change of count), as_ptr moves nothing; dropping a ComPtr is exactly
\* one release.
OwningPointerConversions ==
    /\ [][last'.op \in {"ComPtr::from_raw", "ComPtr::as_ptr", "ComPtr::into_raw"} =>
            /\ Unchanged(strong) /\ Unchanged(deallocs) /\ Unchanged(wrappers)]_vars
    /\ [][last'.op = "ComPtr::as_ptr" => (Unchanged(comptrs) /\ Unchanged(raws))]_vars
    /\ [][last'.op = "ComPtr::into_raw" =>
            /\ comptrs = Add(comptrs', last'.val)
            /\ raws' = Add(raws, last'.val)]_vars
    /\ [][last'.op = "ComPtr::from_raw" =>
            /\ comptrs' = Add(comptrs, last'.val)
            /\ raws = Add(raws', last'.val)]_vars
    /\ [][last'.op = "drop_com_ptr" =>
            /\ strong' = strong - 1
            /\ BagCardinality(comptrs') = BagCardinality(comptrs) - 1
            /\ Unchanged(raws) /\ Unchanged(wrappers)]_vars

\* A ComPtr went through into_raw and from_raw after the wrapper was dropped:
\* it is the one owner again, with the count still 1.
OwningPointerConversionsWitness ==
    /\ last.op = "ComPtr::from_raw"
    /\ wrappers = {}
    /\ raws = EmptyBag
    /\ comptrs = SetToBag({last.val})
    /\ strong = 1
    /\ deallocs = 0

\* C14: a ComRef made from a raw address, used, or discarded leaves the
\* shared count and the owning handles as they were; ComRef::to_com_ptr
\* increments the count by exactly one and yields a ComPtr at the same
\* address, and while a ComPtr lives the allocation is not freed, whatever
\* became of the ComRef and of its lender.
BorrowUpgradeIncrements ==
    /\ [][last'.op \in {"ComRef::from_raw", "ComRef::as_ptr", "drop_com_ref"} =>
            /\ Unchanged(strong) /\ Unchanged(deallocs) /\ Unchanged(wrappers)
            /\ Unchanged(comptrs) /\ Unchanged(raws)]_vars
    /\ [][last'.op = "ComRef::to_com_ptr" =>
            /\ strong' = strong + 1
            /\ comptrs' = Add(comptrs, last'.val)
            /\ Unchanged(deallocs) /\ Unchanged(raws) /\ Unchanged(wrappers)]_vars
    /\ [](comptrs # EmptyBag => (deallocs = 0 /\ strong >= BagCardinality(comptrs)))

\* The ComPtr an upgrade produced is the only handle left: the ComRef is
\* gone, its lender released its unit, the wrapper is dropped, and the
\* allocation is alive with count 1.
BorrowUpgradeIncrementsWitness ==
    /\ last.op = "release"
    /\ refs = EmptyBag
    /\ raws = EmptyBag
    /\ wrappers = {}
    /\ BagCardinality(comptrs) = 1
    /\ strong = 1
    /\ deallocs = 0

\* Whether parse_type, handed type t, comes to a type kind it has no arm for;
\* and whether parse_record does in a field, an argument or a result type of
\* a virtual method among `members`.
RECURSIVE Unrecognized(_)
RECURSIVE MembersUnrecognized(_)
Unrecognized(t) ==
    CASE t.kind = "Int" -> FALSE
      [] t.kind = "Pointer" -> Unrecognized(t.pointee)
      [] t.kind = "Typedef" -> t.sys /\ Unrecognized(t.underlying)
      [] t.kind = "Record" -> t.name = "" /\ MembersUnrecognized(t.members)
      [] OTHER -> TRUE
MembersUnrecognized(members) ==
    \E j \in 1..Len(members) :
        \/ members[j].kind = "FieldDecl" /\ Unrecognized(members[j].type)
        \/ /\ members[j].kind = "CxxMethod"
           /\ members[j].virtual
           /\ \/ Unrecognized(members[j].result)
              \/ \E i \in 1..Len(members[j].args) : Unrecognized(members[j].args[i].type)

\* The cursor is one whose types the parser reads, and one of them is
\* unrecognized.
MeetsUnrecognized(c) ==
    /\ ~c.sys
    /\ c.name \notin skip_list
    /\ \/ c.kind = "TypedefDecl" /\ Unrecognized(c.type)
       \/ c.kind = "StructDecl" /\ c.def /\ c.name # "" /\ MembersUnrecognized(c.members)

\* Location l is that of the n-th cursor visited or of something inside it.
LocatedIn(l, n) == n > 0 /\ (l = n \/ l \div 10 = n \/ l \div 100 = n)

\* C15: when the parser meets an unrecognized type where it parses one (a
\* typedef's underlying type, a field, an argument or the result type of a
\* virtual method), Namespace::parse returns an Err carrying the location:
\* it neither panics nor returns Ok.
UnrecognizedTypeReported ==
    (parsed.kind # "none" /\ MeetsUnrecognized(tu)) =>
        (parsed.kind = "err" /\ LocatedIn(parsed.loc, parsed.count))

\* The same for the places other than the result type of a virtual method:
\* there the Err is returned.
UnrecognizedTypeReportedExceptResult ==
    (parsed.kind # "none" /\ MeetsUnrecognized(tu) /\ parsed.kind # "panic") =>
        (parsed.kind = "err" /\ LocatedIn(parsed.loc, parsed.count))

VisitStep == parsed.kind = "running" /\ parsed'.count = parsed.count + 1
Skipped(c) == c.sys \/ c.name \in skip_list \/ (c.kind = "Namespace" /\ c.name = "")
Names(entries) == [k \in 1..Len(entries) |-> entries[k].name]

\* C20: a visit of a namespace cursor adds the child namespace only when the
\* parent has none of that name and otherwise keeps the child with all it
\* holds; a typedef or a named record definition visited inside it is
\* appended to the typedefs or records of the open namespace and changes
\* nothing else, so a namespace opened twice holds what both visits
\* collected, in visit order; a cursor in a system header, one named on the
\* skip list and an unnamed namespace add nothing and are not entered.
NamespacesMerged ==
    [][VisitStep =>
         LET c == tu'
             path == ns_path(parsed.stack)
             child == Append(path, c.name)
             old == parsed.ns
             new == parsed'.ns
         IN  /\ Skipped(c) => (new = old /\ parsed'.stack = parsed.stack)
             /\ (c.kind = "Namespace" /\ ~Skipped(c)) =>
                    /\ DOMAIN new = DOMAIN old \cup {child}
                    /\ \A q \in DOMAIN old : new[q] = old[q]
                    /\ child \notin DOMAIN old => new[child] = Namespace_new
                    /\ ns_path(parsed'.stack) = child
             /\ c.kind # "Namespace" =>
                    /\ DOMAIN new = DOMAIN old
                    /\ \A q \in DOMAIN old \ {path} : new[q] = old[q]
                    /\ ns_path(parsed'.stack) = path
                    /\ Names(new[path].typedefs) =
                          IF c.kind = "TypedefDecl" /\ ~Skipped(c) /\ parsed'.kind = "running"
                          THEN Append(Names(old[path].typedefs), c.name)
                          ELSE Names(old[path].typedefs)
                    /\ Names(new[path].records) =
                          IF /\ c.kind = "StructDecl" /\ c.def /\ c.name # ""
                             /\ ~Skipped(c) /\ parsed'.kind = "running"
                          THEN Append(Names(old[path].records), c.name)
                          ELSE Names(old[path].records)
                    /\ \A k \in 1..Len(old[path].typedefs) :
                          new[path].typedefs[k] = old[path].typedefs[k]
                    /\ \A k \in 1..Len(old[path].records) :
                          new[path].records[k] = old[path].records[k]]_vars

\* Namespace N was opened a second time when it held one typedef, and the
\* typedef visited now follows that one in N.
NamespacesMergedWitness ==
    /\ parsed.kind = "running"
    /\ parsed.stack = <<[kind |-> "Namespace", name |-> "N", had |-> 1]>>
    /\ tu.kind = "TypedefDecl"
    /\ Names(parsed.ns[<<"N">>].typedefs) = <<"T", "U">>
    /\ parsed.ns[<< >>] = Namespace_new

\* C16: calls of add_ref and release from different threads, interleaved in
\* any way, lose no update: the step that completes an add_ref raises the
\* shared count by exactly one, the step that completes a release lowers it
\* by exactly one, and no other step changes it; so after n add_ref and m
\* release calls from count c the count is c + n - m.
NoLostUpdate ==
    [][LET added == {t \in Threads : pc[t] = "add_ref_inc" /\ pc'[t] = "idle"}
           released == {t \in Threads : pc[t] = "release_dec" /\ pc'[t] = "idle"}
       IN  strong' = strong + Cardinality(added) - Cardinality(released)]_vars

\* Two add_ref calls overlapped (both read the count before either
\* incremented it, so both returned the same value) and the count holds
\* both increments.
NoLostUpdateWitness ==
    /\ \A t \in Threads : pc[t] = "idle"
    /\ result[1].some
    /\ result[2] = result[1]
    /\ strong = result[1].val + 1
    /\ \A t \in {1, 2} : BagCardinality(held[t]) = MaxHeld
    /\ strong = HandleCount

\* Addresses a header or a data pointer may have.
Addresses == {b + k * PtrSize : b \in Bases, k \in 0..MaxIfaces}

\* C17: reverse recovery inverts the cast: from an interface pointer that
\* as_com_ref or to_com_ptr returned, subtracting the field's offset gives the
\* header address, data_from_header of it the data address, and the data
\* offset subtracted from that the allocation's address; and data_from_header
\* and header_from_data are inverse to each other on every address.
ReverseRecovery ==
    /\ (last.op \in CastOps /\ last.some) =>
          LET this == last.val
              header_ptr == this - hdr[FieldAt(this)].OFFSET
              data == data_from_header(header_ptr)
          IN  /\ this \in FieldAddrs
              /\ header_ptr = inner + HeaderOffset
              /\ data = inner + HeaderOffset + Len(cls) * PtrSize
              /\ wrapper_ptr_of(data) = inner
              /\ wrapper_ptr_of(this_to_data(this)) = inner
    /\ \A a \in Addresses :
          /\ header_from_data(data_from_header(a)) = a
          /\ data_from_header(header_from_data(a)) = a

\* A cast returned the address of a field that is not at the header's start,
\* in a class with two interfaces.
ReverseRecoveryWitness ==
    /\ last.op \in CastOps
    /\ last.some
    /\ Len(cls) = 2
    /\ last.val = inner + HeaderOffset + PtrSize
    /\ wrapper_ptr_of(this_to_data(last.val)) = inner

\* C18: for every class and every instance, the address of field k of the
\* header is the header's address plus the offset computed for k; different
\* fields have different offsets; and the OFFSET in the dispatch table of
\* field k is the value query_interface returns when field k is the match.
OffsetsDeterministic ==
    /\ \A k \in 1..Len(cls) : \A b \in Bases :
          field_addr(b + HeaderOffset, layout, k) = (b + HeaderOffset) + offset_of(layout, k)
    /\ \A j, k \in 1..Len(cls) : j # k => offset_of(layout, j) # offset_of(layout, k)
    /\ Created =>
          /\ Len(hdr) = Len(cls)
          /\ \A k \in 1..Len(cls) : hdr[k].OFFSET = offset_of(layout, k)
          /\ \A iid \in Guids :
                Matching(iid) # {} =>
                    query_interface(cls, layout, iid) = Some(hdr[First(Matching(iid))].OFFSET)
          /\ \A k \in 1..Len(cls) : FieldAddress(k) = inner + HeaderOffset + hdr[k].OFFSET

\* An object of a class with two interfaces whose header the compiler laid
\* out against the declaration order, and a lookup that matched field 2.
OffsetsDeterministicWitness ==
    /\ Created
    /\ Len(cls) = 2
    /\ layout = <<2, 1>>
    /\ last.op = "Class::query_interface"
    /\ last.some
    /\ First(Matching(last.iid)) = 2
    /\ last.val = hdr[2].OFFSET

\* C19: the header and the offsets of an allocation do not change while it
\* lives: clone, as_com_ref, to_com_ptr, add_ref, query_interface and release
\* leave the allocation where it is, its header, its class and layout and
\* the result of query_interface for every id as they were, and free nothing
\* unless the count was 1.
HeaderImmutable ==
    [][Created =>
         /\ Unchanged(inner) /\ Unchanged(hdr) /\ Unchanged(cls) /\ Unchanged(layout)
         /\ \A iid \in Guids :
               query_interface(cls', layout', iid) = query_interface(cls, layout, iid)
         /\ hdr' = header(cls', layout')
         /\ strong # 1 => Unchanged(deallocs)]_vars

\* A clone, casts and calls through interface pointers have happened, the
\* latest a release that was not the last, and the header is as built.
HeaderImmutableWitness ==
    /\ last.op = "release"
    /\ strong = 2
    /\ Cardinality(wrappers) = 1
    /\ comptrs # EmptyBag
    /\ hdr = header(cls, layout)
    /\ Len(cls) = 2

====
